---- MODULE Spec2Model ----
(***************************************************************************)
(* Model of the KQCircuits simulation scripting helpers:                   *)
(*   ansys/util/geometry.py          - geometry-command builder            *)
(*   elmer/cross_section_helpers.py  - cross-section mesh, sif files and   *)
(*                                     result-matrix parser                *)
(* The external engines (the Ansys editor session, gmsh, the file system)  *)
(* are modelled by the calls issued to them and by the files they hold.    *)
(***************************************************************************)
EXTENDS Integers, Sequences, FiniteSets, TLC

VARIABLES
    \* ---- geometry.py: one invocation of a builder function
    op,        \* the invocation: function name and its arguments
    calls,     \* the calls the invocation issued to the external session, in order
    ret,       \* the value the invocation returned (a Python value)
    raised,    \* "none", or the exception the invocation raised
    \* ---- geometry.py: format_position
    fx,        \* the argument x of format_position
    funits,    \* the argument units
    fout,      \* the value returned, NotCalled before the call
    \* ---- geometry.py: color_by_material
    cmat,      \* the argument material
    cdict,     \* the argument material_dict
    csheet,    \* the argument is_sheet
    cout,      \* the tuple returned, NoColor before the call
    \* ---- cross_section_helpers.py: get_cross_section_capacitance_and_inductance
    rfiles,    \* the solver's output folder: file name -> content, 0 when absent
    rout,      \* the outcome of the last call, NoResult before it
    \* ---- cross_section_helpers.py: produce_cross_section_sif_files
    sjson,     \* the argument json_data: sif_names, run_inductance_sim, London mode
    spc,       \* where the invocation stands
    sdir,      \* whether folder_path exists
    sfolder,   \* the files of folder_path: file name -> content
    swrites,   \* the files the invocation has saved so far, in order
    sif_files, \* the list of saved sif file names, returned at the end
    \* ---- cross_section_helpers.py: produce_cross_section_mesh
    mfiles,    \* the mesh files on disk: path -> content, 0 when absent
    ginit,     \* whether gmsh is initialized (initialize without finalize)
    glog,      \* the calls into gmsh and the layout reader, of the last run that made any
    gruns,     \* how many invocations have called into gmsh
    mcount,    \* how many invocations there have been
    mlast,     \* the last invocation: its arguments and whether it reused the file
    \* ---- geometry.py: match_layer
    lname,     \* the argument layer_name, a sequence of characters
    lpattern,  \* the argument layer_pattern, a sequence of characters
    lout,      \* the value returned, NoMatchCall before the call
    \* ---- cross_section_helpers.py: one run of produce_cross_section_mesh
    \*      from the layers of the layout to the generated mesh
    ppc,       \* where the run stands
    layers,    \* json_data["layers"] with the polygons the layout holds for each layer
    dim_tags,  \* the dictionary dim_tags: layer name -> (dimension, tag) pairs
    new_tags,  \* the dictionary new_tags: name -> (dimension, tag) pairs
    pidx,      \* the position of the registration loop in new_tags
    pgroups,   \* the physical groups registered so far, in order
    pcalls     \* the calls into gmsh so far, in order

geomVars == <<op, calls, ret, raised>>
fmtVars  == <<fx, funits, fout>>
colorVars == <<cmat, cdict, csheet, cout>>
resultVars == <<rfiles, rout>>
sifVars  == <<sjson, spc, sdir, sfolder, swrites, sif_files>>
meshVars == <<mfiles, ginit, glog, gruns, mcount, mlast>>
matchVars == <<lname, lpattern, lout>>
groupVars == <<ppc, layers, dim_tags, new_tags, pidx, pgroups, pcalls>>
vars     == <<op, calls, ret, raised, fx, funits, fout, cmat, cdict, csheet, cout,
              rfiles, rout, sjson, spc, sdir, sfolder, swrites, sif_files,
              mfiles, ginit, glog, gruns, mcount, mlast, lname, lpattern, lout,
              ppc, layers, dim_tags, new_tags, pidx, pgroups, pcalls>>

\* what each component leaves alone: the state of the other components
notGeom   == <<fmtVars, colorVars, resultVars, sifVars, meshVars, matchVars, groupVars>>
notFmt    == <<geomVars, colorVars, resultVars, sifVars, meshVars, matchVars, groupVars>>
notColor  == <<geomVars, fmtVars, resultVars, sifVars, meshVars, matchVars, groupVars>>
notResult == <<geomVars, fmtVars, colorVars, sifVars, meshVars, matchVars, groupVars>>
notSif    == <<geomVars, fmtVars, colorVars, resultVars, meshVars, matchVars, groupVars>>
notMesh   == <<geomVars, fmtVars, colorVars, resultVars, sifVars, matchVars, groupVars>>
notMatch  == <<geomVars, fmtVars, colorVars, resultVars, sifVars, meshVars, groupVars>>
notGroup  == <<geomVars, fmtVars, colorVars, resultVars, sifVars, meshVars, matchVars>>

-----------------------------------------------------------------------------
(* Bounds of the model *)

\* longest list of object names handed to a transform function
MaxObjs == 2
\* longest layer name and longest layer pattern handed to match_layer
MaxLayerLen == 3
\* most invocations of produce_cross_section_mesh in one behaviour
MaxMeshCalls == 3
\* most polygons the layout holds on one layer
MaxPolys == 1
\* longest point list handed to create_polygon
MaxPts == 3
\* deepest nesting of lists and tuples inside a format_position argument
MaxDepth == 3

-----------------------------------------------------------------------------
(* Python values.  Every value is a record of one shape, so that values of   *)
(* different Python types can be compared.                                   *)

PyNone       == [kind |-> "None",  n |-> 0, s |-> "", items |-> <<>>]
PyNum(n)     == [kind |-> "num",   n |-> n, s |-> "", items |-> <<>>]
PyStr(s)     == [kind |-> "str",   n |-> 0, s |-> s,  items |-> <<>>]
PyBool(b)    == [kind |-> "bool",  n |-> IF b THEN 1 ELSE 0, s |-> "", items |-> <<>>]
PyList(xs)   == [kind |-> "list",  n |-> 0, s |-> "", items |-> xs]
PyTuple(xs)  == [kind |-> "tuple", n |-> 0, s |-> "", items |-> xs]
\* the state of a result variable before the function has been called
NotCalled    == [kind |-> "notcalled", n |-> 0, s |-> "", items |-> <<>>]

\* str() of one decimal digit
Digit(d) ==
    CASE d = 0 -> "0" [] d = 1 -> "1" [] d = 2 -> "2" [] d = 3 -> "3"
      [] d = 4 -> "4" [] d = 5 -> "5" [] d = 6 -> "6" [] d = 7 -> "7"
      [] d = 8 -> "8" [] d = 9 -> "9"

RECURSIVE StrNat(_)
StrNat(n) == IF n < 10 THEN Digit(n) ELSE StrNat(n \div 10) \o Digit(n % 10)

\* str() of a Python int
StrInt(n) == IF n < 0 THEN "-" \o StrNat(-n) ELSE StrNat(n)

\* sep.join(strs) for a list of strings
RECURSIVE Join(_, _)
Join(sep, strs) ==
    IF strs = <<>> THEN ""
    ELSE IF Len(strs) = 1 THEN Head(strs)
    ELSE Head(strs) \o sep \o Join(sep, Tail(strs))

\* repr() of a value, as str() of a container uses it for its elements
RECURSIVE Repr(_)
Repr(x) ==
    CASE x.kind = "num"   -> StrInt(x.n)
      [] x.kind = "str"   -> "'" \o x.s \o "'"
      [] x.kind = "bool"  -> IF x.n = 1 THEN "True" ELSE "False"
      [] x.kind = "None"  -> "None"
      [] x.kind = "list"  ->
            "[" \o Join(", ", [i \in 1..Len(x.items) |-> Repr(x.items[i])]) \o "]"
      [] x.kind = "tuple" ->
            IF Len(x.items) = 1 THEN "(" \o Repr(x.items[1]) \o ",)"
            ELSE "(" \o Join(", ", [i \in 1..Len(x.items) |-> Repr(x.items[i])]) \o ")"

\* str() of a value
Str(x) == IF x.kind = "str" THEN x.s ELSE Repr(x)

-----------------------------------------------------------------------------
(* geometry.py: format_position *)

\* isinstance(x, list): true of a list only, not of a tuple
IsListInstance(x) == x.kind = "list"

\* a format_position that formats the items of a list without recursing
format_position_shallow(x, units) ==
    IF IsListInstance(x)
    THEN PyList([i \in 1..Len(x.items) |->
                    IF x.items[i].kind = "str" THEN x.items[i]
                    ELSE PyStr(Str(x.items[i]) \o units)])
    ELSE IF x.kind = "str" THEN x
    ELSE PyStr(Str(x) \o units)

RECURSIVE format_position(_, _)
format_position(x, units) ==
    IF IsListInstance(x)
    THEN PyList([i \in 1..Len(x.items) |-> format_position(x.items[i], units)])
    ELSE IF x.kind = "str" THEN x
    ELSE PyStr(Str(x) \o units)

-----------------------------------------------------------------------------
(* geometry.py: the inputs the builder functions are called with *)

Names      == {"a", "b"}
Units      == {"um", "mm"}
\* positions: bare numbers or unit-qualified strings
Coords     == {PyNum(0), PyNum(-2), PyStr("3um")}
\* sizes, thicknesses and shifts: bare numbers, zero among them
Dims       == {-1, 0, 2}
\* scale factors, the identity factor 1 among them
Factors    == {1, 2, 3}
Axes       == {"X", "Z"}
\* polygon corner points (x, y, z)
Pts        == {<<0, 0, 0>>, <<1, 0, 0>>, <<0, 1, 0>>}
Materials  == {PyNone, PyStr("si")}
SolveFlags == {PyNone, PyBool(TRUE), PyBool(FALSE)}

\* all sequences over S of length at most n
SeqsUpTo(S, n) == UNION {[1..k -> S] : k \in 0..n}

ObjectLists == SeqsUpTo(Names, MaxObjs)
PointLists  == SeqsUpTo(Pts, MaxPts)
\* keyword parameters of add_material, in call order
ParamLists  == {<<>>, <<<<"permittivity", 11>>>>,
                <<<<"permittivity", 4>>, <<"conductivity", 0>>>>}

\* one invocation of a builder function with its arguments
Invocation(fn, objects, tool_objects, nums, pos, points, opts, units) ==
    [fn |-> fn, objects |-> objects, tool_objects |-> tool_objects, nums |-> nums,
     pos |-> pos, points |-> points, opts |-> opts, units |-> units]

NoInvocation == Invocation("none", <<>>, <<>>, <<>>, <<>>, <<>>, <<>>, "")

\* one call into the external session: oEditor.<method>(*args)
Call(method, args) == [method |-> method, args |-> args]

S(s) == PyStr(s)
L(xs) == PyList(xs)
\* a list of object names as Python strings
StrList(objects) == [i \in 1..Len(objects) |-> PyStr(objects[i])]

-----------------------------------------------------------------------------
(* geometry.py: guards of the builder functions *)

create_rectangle_guard(w, h) == w # 0 /\ h # 0
\* a guard that forgets the third extent
create_box_guard_two_extents(sx, sy, sz) == sx # 0 /\ sy # 0
create_box_guard(sx, sy, sz) == sx # 0 /\ sy # 0 /\ sz # 0
thicken_sheet_guard(objects, thickness) == objects # <<>> /\ thickness # 0
set_material_guard(objects) == objects # <<>>
move_vertically_guard(objects, z_shift) == objects # <<>> /\ z_shift # 0
copy_paste_guard(objects) == objects # <<>>
delete_guard(objects) == objects # <<>>
subtract_guard(objects, tool_objects) == objects # <<>> /\ tool_objects # <<>>
unite_guard(objects) == Len(objects) > 1
set_color_guard(objects) == objects # <<>>
\* a guard that forgets the identity factor
scale_guard_objects_only(objects, factor) == objects # <<>>
scale_guard(objects, factor) == objects # <<>> /\ factor # 1

-----------------------------------------------------------------------------
(* geometry.py: the builder functions.  Each yields the outcome of one      *)
(* invocation: the calls issued, the value returned, the exception raised.  *)

Outcome(cs, r, e) == [calls |-> cs, ret |-> r, raised |-> e]

\* the selection list most transform calls start with
Selections(objects) ==
    L(<<S("NAME:Selections"), S("Selections:="), S(Join(",", objects)),
        S("NewPartsModelFlag:="), S("Model")>>)

create_rectangle(name, x, y, z, w, h, axis, units) ==
    IF create_rectangle_guard(w, h)
    THEN Outcome(
        <<Call("CreateRectangle",
            <<L(<<S("NAME:RectangleParameters"), S("IsCovered:="), PyBool(TRUE),
                  S("XStart:="), format_position(x, units),
                  S("YStart:="), format_position(y, units),
                  S("ZStart:="), format_position(z, units),
                  S("Width:="), format_position(PyNum(w), units),
                  S("Height:="), format_position(PyNum(h), units),
                  S("WhichAxis:="), S(axis)>>),
              L(<<S("NAME:Attributes"), S("Name:="), S(name),
                  S("PartCoordinateSystem:="), S("Global")>>)>>)>>,
        PyNone, "none")
    ELSE Outcome(<<>>, PyNone, "none")

\* one ["NAME:PLPoint", ...] entry
PLPoint(p, units) ==
    L(<<S("NAME:PLPoint"),
        S("X:="), format_position(PyNum(p[1]), units),
        S("Y:="), format_position(PyNum(p[2]), units),
        S("Z:="), format_position(PyNum(p[3]), units)>>)

\* one ["NAME:PLSegment", ...] entry, i in range(len(points))
PLSegment(i) ==
    L(<<S("NAME:PLSegment"), S("SegmentType:="), S("Line"),
        S("StartIndex:="), PyNum(i), S("NoOfPoints:="), PyNum(2)>>)

\* no guard: the argument list is built first, and points[0] raises IndexError
\* on an empty list before CreatePolyline is called
create_polygon(name, points, units) ==
    IF points = <<>>
    THEN Outcome(<<>>, PyNone, "IndexError")
    ELSE LET closed == points \o <<points[1]>> IN
      Outcome(
        <<Call("CreatePolyline",
            <<L(<<S("NAME:PolylineParameters"),
                  S("IsPolylineCovered:="), PyBool(TRUE),
                  S("IsPolylineClosed:="), PyBool(TRUE),
                  L(<<S("NAME:PolylinePoints")>>
                      \o [i \in 1..Len(closed) |-> PLPoint(closed[i], units)]),
                  L(<<S("NAME:PolylineSegments")>>
                      \o [i \in 1..Len(points) |-> PLSegment(i - 1)]),
                  L(<<S("NAME:PolylineXSection"),
                      S("XSectionType:="), S("None"),
                      S("XSectionOrient:="), S("Auto"),
                      S("XSectionWidth:="), S("0" \o units),
                      S("XSectionTopWidth:="), S("0" \o units),
                      S("XSectionHeight:="), S("0" \o units),
                      S("XSectionNumSegments:="), S("0"),
                      S("XSectionBendType:="), S("Corner")>>)>>),
              L(<<S("NAME:Attributes"), S("Name:="), S(name), S("Flags:="), S(""),
                  S("PartCoordinateSystem:="), S("Global")>>)>>)>>,
        PyNone, "none")

create_box(name, x, y, z, sx, sy, sz, units) ==
    IF create_box_guard(sx, sy, sz)
    THEN Outcome(
        <<Call("CreateBox",
            <<L(<<S("NAME:BoxParameters"),
                  S("XPosition:="), format_position(x, units),
                  S("YPosition:="), format_position(y, units),
                  S("ZPosition:="), format_position(z, units),
                  S("XSize:="), format_position(PyNum(sx), units),
                  S("YSize:="), format_position(PyNum(sy), units),
                  S("ZSize:="), format_position(PyNum(sz), units)>>),
              L(<<S("NAME:Attributes"), S("Name:="), S(name),
                  S("MaterialValue:="), S("\"\""), S("Flags:="), S(""),
                  S("PartCoordinateSystem:="), S("Global")>>)>>)>>,
        PyNone, "none")
    ELSE Outcome(<<>>, PyNone, "none")

thicken_sheet(objects, thickness, units) ==
    IF thicken_sheet_guard(objects, thickness)
    THEN Outcome(
        <<Call("SweepAlongVector",
            <<Selections(objects),
              L(<<S("NAME:VectorSweepParameters"),
                  S("DraftAngle:="), S("0deg"), S("DraftType:="), S("Round"),
                  S("CheckFaceFaceIntersection:="), PyBool(FALSE),
                  S("SweepVectorX:="), S("0um"), S("SweepVectorY:="), S("0um"),
                  S("SweepVectorZ:="), S(StrInt(thickness) \o " " \o units)>>)>>)>>,
        PyNone, "none")
    ELSE Outcome(<<>>, PyNone, "none")

\* one oEditor.ChangeProperty call changing the given properties of the objects
ChangeProperty(objects, props) ==
    Call("ChangeProperty",
        <<L(<<S("NAME:AllTabs"),
              L(<<S("NAME:Geometry3DAttributeTab"),
                  L(<<S("NAME:PropServers")>> \o StrList(objects)),
                  L(<<S("NAME:ChangedProps")>> \o props)>>)>>)>>)

\* a set_material that changes Solve Inside only when no material is given
set_material_single_call(objects, material, solve_inside) ==
    IF set_material_guard(objects)
    THEN Outcome(
        IF material # PyNone
        THEN <<ChangeProperty(objects,
                    <<L(<<S("NAME:Material"), S("Value:="),
                          S("\"" \o Str(material) \o "\"")>>)>>)>>
        ELSE IF solve_inside # PyNone
        THEN <<ChangeProperty(objects,
                    <<L(<<S("NAME:Solve Inside"), S("Value:="), solve_inside>>)>>)>>
        ELSE <<ChangeProperty(objects,
                    <<L(<<S("NAME:Model"), S("Value:="), PyBool(FALSE)>>)>>)>>,
        PyNone, "none")
    ELSE Outcome(<<>>, PyNone, "none")

set_material(objects, material, solve_inside) ==
    IF set_material_guard(objects)
    THEN Outcome(
        (IF solve_inside # PyNone
         THEN <<ChangeProperty(objects,
                    <<L(<<S("NAME:Solve Inside"), S("Value:="), solve_inside>>)>>)>>
         ELSE <<>>)
        \o
        (IF material # PyNone
         THEN <<ChangeProperty(objects,
                    <<L(<<S("NAME:Material"), S("Value:="),
                          S("\"" \o Str(material) \o "\"")>>)>>)>>
         ELSE <<ChangeProperty(objects,
                    <<L(<<S("NAME:Model"), S("Value:="), PyBool(FALSE)>>)>>)>>),
        PyNone, "none")
    ELSE Outcome(<<>>, PyNone, "none")

move_vertically(objects, z_shift, units) ==
    IF move_vertically_guard(objects, z_shift)
    THEN Outcome(
        <<Call("Move",
            <<Selections(objects),
              L(<<S("NAME:TranslateParameters"),
                  S("TranslateVectorX:="), S("0 " \o units),
                  S("TranslateVectorY:="), S("0 " \o units),
                  S("TranslateVectorZ:="), S(StrInt(z_shift) \o " " \o units)>>)>>)>>,
        PyNone, "none")
    ELSE Outcome(<<>>, PyNone, "none")

\* the names oEditor.Paste() gives back: one new object per copied object
PasteResult(objects) == PyList([i \in 1..Len(objects) |-> S(objects[i] \o "1")])

copy_paste(objects) ==
    IF copy_paste_guard(objects)
    THEN Outcome(
        <<Call("Copy",
            <<L(<<S("NAME:Selections"), S("Selections:="), S(Join(",", objects))>>)>>),
          Call("Paste", <<>>)>>,
        PasteResult(objects), "none")
    ELSE Outcome(<<>>, PyList(<<>>), "none")

delete(objects) ==
    IF delete_guard(objects)
    THEN Outcome(
        <<Call("Delete",
            <<L(<<S("NAME:Selections"), S("Selections:="), S(Join(",", objects))>>)>>)>>,
        PyNone, "none")
    ELSE Outcome(<<>>, PyNone, "none")

subtract(objects, tool_objects, keep_originals) ==
    IF subtract_guard(objects, tool_objects)
    THEN Outcome(
        <<Call("Subtract",
            <<L(<<S("NAME:Selections"), S("Blank Parts:="), S(Join(",", objects)),
                  S("Tool Parts:="), S(Join(",", tool_objects))>>),
              L(<<S("NAME:SubtractParameters"), S("KeepOriginals:="),
                  PyBool(keep_originals), S("TurnOnNBodyBoolean:="), PyBool(TRUE)>>)>>)>>,
        PyNone, "none")
    ELSE Outcome(<<>>, PyNone, "none")

unite(objects, keep_originals) ==
    IF unite_guard(objects)
    THEN Outcome(
        <<Call("Unite",
            <<L(<<S("NAME:Selections"), S("Selections:="), S(Join(",", objects))>>),
              L(<<S("NAME:UniteParameters"), S("KeepOriginals:="),
                  PyBool(keep_originals), S("TurnOnNBodyBoolean:="), PyBool(TRUE)>>)>>)>>,
        PyNone, "none")
    ELSE Outcome(<<>>, PyNone, "none")

\* the "key:=", str(value) pairs appended for the keyword parameters
RECURSIVE MaterialParams(_)
MaterialParams(parameters) ==
    IF parameters = <<>> THEN <<>>
    ELSE <<S(Head(parameters)[1] \o ":="), S(StrInt(Head(parameters)[2]))>>
         \o MaterialParams(Tail(parameters))

\* issued to oDefinitionManager, unguarded
add_material(name, parameters) ==
    Outcome(
        <<Call("AddMaterial",
            <<L(<<S("NAME:" \o name), S("CoordinateSystemType:="), S("Cartesian"),
                  S("BulkOrSurfaceType:="), PyNum(1),
                  L(<<S("NAME:PhysicsTypes"), S("set:="), L(<<S("Electromagnetic")>>)>>)>>
                \o MaterialParams(parameters))>>)>>,
        PyNone, "none")

set_color(objects, red, green, blue, transparency) ==
    IF set_color_guard(objects)
    THEN Outcome(
        <<ChangeProperty(objects,
            <<L(<<S("NAME:Color"), S("R:="), PyNum(red), S("G:="), PyNum(green),
                  S("B:="), PyNum(blue)>>),
              L(<<S("NAME:Transparent"), S("Value:="), PyNum(transparency)>>)>>)>>,
        PyNone, "none")
    ELSE Outcome(<<>>, PyNone, "none")

scale(objects, factor) ==
    IF scale_guard(objects, factor)
    THEN Outcome(
        <<Call("Scale",
            <<Selections(objects),
              L(<<S("NAME:ScaleParameters"), S("ScaleX:="), S(StrInt(factor)),
                  S("ScaleY:="), S(StrInt(factor)), S("ScaleZ:="), S(StrInt(factor))>>)>>)>>,
        PyNone, "none")
    ELSE Outcome(<<>>, PyNone, "none")

-----------------------------------------------------------------------------
(* geometry.py: one action per builder function, invoked by the caller with *)
(* any arguments; the external session records the calls it receives.       *)

CallCreateRectangle ==
    \E name \in Names, x \in Coords, y \in Coords, z \in Coords,
       w \in Dims, h \in Dims, axis \in Axes, units \in Units :
        LET out == create_rectangle(name, x, y, z, w, h, axis, units) IN
        /\ op = NoInvocation
        /\ op' = Invocation("create_rectangle", <<>>, <<>>, <<w, h>>, <<x, y, z>>, <<>>,
                               <<S(name), S(axis)>>, units)
        /\ calls' = out.calls
        /\ ret' = out.ret
        /\ raised' = out.raised
        /\ UNCHANGED notGeom

CallCreatePolygon ==
    \E name \in Names, points \in PointLists, units \in Units :
        LET out == create_polygon(name, points, units) IN
        /\ op = NoInvocation
        /\ op' = Invocation("create_polygon", <<>>, <<>>, <<>>, <<>>, points,
                               <<S(name)>>, units)
        /\ calls' = out.calls
        /\ ret' = out.ret
        /\ raised' = out.raised
        /\ UNCHANGED notGeom

CallCreateBox ==
    \E name \in Names, x \in Coords, y \in Coords, z \in Coords,
       sx \in Dims, sy \in Dims, sz \in Dims, units \in Units :
        LET out == create_box(name, x, y, z, sx, sy, sz, units) IN
        /\ op = NoInvocation
        /\ op' = Invocation("create_box", <<>>, <<>>, <<sx, sy, sz>>, <<x, y, z>>, <<>>,
                               <<S(name)>>, units)
        /\ calls' = out.calls
        /\ ret' = out.ret
        /\ raised' = out.raised
        /\ UNCHANGED notGeom

CallThickenSheet ==
    \E objects \in ObjectLists, thickness \in Dims, units \in Units :
        LET out == thicken_sheet(objects, thickness, units) IN
        /\ op = NoInvocation
        /\ op' = Invocation("thicken_sheet", objects, <<>>, <<thickness>>, <<>>, <<>>,
                               <<>>, units)
        /\ calls' = out.calls
        /\ ret' = out.ret
        /\ raised' = out.raised
        /\ UNCHANGED notGeom

CallSetMaterial ==
    \E objects \in ObjectLists, material \in Materials, solve_inside \in SolveFlags :
        LET out == set_material(objects, material, solve_inside) IN
        /\ op = NoInvocation
        /\ op' = Invocation("set_material", objects, <<>>, <<>>, <<>>, <<>>,
                               <<material, solve_inside>>, "")
        /\ calls' = out.calls
        /\ ret' = out.ret
        /\ raised' = out.raised
        /\ UNCHANGED notGeom

CallMoveVertically ==
    \E objects \in ObjectLists, z_shift \in Dims, units \in Units :
        LET out == move_vertically(objects, z_shift, units) IN
        /\ op = NoInvocation
        /\ op' = Invocation("move_vertically", objects, <<>>, <<z_shift>>, <<>>, <<>>,
                               <<>>, units)
        /\ calls' = out.calls
        /\ ret' = out.ret
        /\ raised' = out.raised
        /\ UNCHANGED notGeom

CallCopyPaste ==
    \E objects \in ObjectLists :
        LET out == copy_paste(objects) IN
        /\ op = NoInvocation
        /\ op' = Invocation("copy_paste", objects, <<>>, <<>>, <<>>, <<>>, <<>>, "")
        /\ calls' = out.calls
        /\ ret' = out.ret
        /\ raised' = out.raised
        /\ UNCHANGED notGeom

CallDelete ==
    \E objects \in ObjectLists :
        LET out == delete(objects) IN
        /\ op = NoInvocation
        /\ op' = Invocation("delete", objects, <<>>, <<>>, <<>>, <<>>, <<>>, "")
        /\ calls' = out.calls
        /\ ret' = out.ret
        /\ raised' = out.raised
        /\ UNCHANGED notGeom

CallSubtract ==
    \E objects \in ObjectLists, tool_objects \in ObjectLists, keep_originals \in BOOLEAN :
        LET out == subtract(objects, tool_objects, keep_originals) IN
        /\ op = NoInvocation
        /\ op' = Invocation("subtract", objects, tool_objects, <<>>, <<>>, <<>>,
                               <<PyBool(keep_originals)>>, "")
        /\ calls' = out.calls
        /\ ret' = out.ret
        /\ raised' = out.raised
        /\ UNCHANGED notGeom

CallUnite ==
    \E objects \in ObjectLists, keep_originals \in BOOLEAN :
        LET out == unite(objects, keep_originals) IN
        /\ op = NoInvocation
        /\ op' = Invocation("unite", objects, <<>>, <<>>, <<>>, <<>>,
                               <<PyBool(keep_originals)>>, "")
        /\ calls' = out.calls
        /\ ret' = out.ret
        /\ raised' = out.raised
        /\ UNCHANGED notGeom

CallAddMaterial ==
    \E name \in Names, parameters \in ParamLists :
        LET out == add_material(name, parameters) IN
        /\ op = NoInvocation
        /\ op' = Invocation("add_material", <<>>, <<>>, <<>>, <<>>, <<>>,
                               <<S(name), PyNum(Len(parameters))>>, "")
        /\ calls' = out.calls
        /\ ret' = out.ret
        /\ raised' = out.raised
        /\ UNCHANGED notGeom

CallSetColor ==
    \E objects \in ObjectLists, red \in {20, 240}, green \in {120}, blue \in {180, 240},
       transparency \in {0, 1} :
        LET out == set_color(objects, red, green, blue, transparency) IN
        /\ op = NoInvocation
        /\ op' = Invocation("set_color", objects, <<>>, <<red, green, blue, transparency>>,
                               <<>>, <<>>, <<>>, "")
        /\ calls' = out.calls
        /\ ret' = out.ret
        /\ raised' = out.raised
        /\ UNCHANGED notGeom

CallScale ==
    \E objects \in ObjectLists, factor \in Factors :
        LET out == scale(objects, factor) IN
        /\ op = NoInvocation
        /\ op' = Invocation("scale", objects, <<>>, <<factor>>, <<>>, <<>>, <<>>, "")
        /\ calls' = out.calls
        /\ ret' = out.ret
        /\ raised' = out.raised
        /\ UNCHANGED notGeom

\* the caller drops the outcome; nothing of the invocation is retained
Return ==
    /\ op # NoInvocation
    /\ op' = NoInvocation
    /\ calls' = <<>>
    /\ ret' = PyNone
    /\ raised' = "none"
    /\ UNCHANGED notGeom

InitGeom ==
    /\ op = NoInvocation
    /\ calls = <<>>
    /\ ret = PyNone
    /\ raised = "none"

IdleFmt ==
    /\ fx = PyNone
    /\ funits = ""
    /\ fout = NotCalled

NoEntry == [present |-> FALSE, has_conductivity |-> FALSE, conductivity |-> 0,
            has_permittivity |-> FALSE, permittivity |-> 0]
NoColor == [called |-> FALSE, r |-> 0, g |-> 0, b |-> 0, alpha |-> 0]

IdleColor ==
    /\ cmat = ""
    /\ cdict = [k \in {"pec", "si"} |-> NoEntry]
    /\ csheet = TRUE
    /\ cout = NoColor

\* the files the result parser reads
OutputFiles == {"capacitance.dat", "capacitance0.dat", "inductance.dat",
                "inductance.dat.0", "inductance.dat.names"}

\* no matrix: Python's None
NoMatrix == [none |-> TRUE, from |-> "", data |-> 0, names |-> 0]
NoResult == [called |-> FALSE, london |-> FALSE, raised |-> "none",
             value |-> [Cs |-> NoMatrix, Ls |-> NoMatrix]]

IdleResult ==
    /\ rfiles = [f \in OutputFiles |-> 0]
    /\ rout = NoResult

\* the content of a file that does not exist
NoFile == [gen |-> "none", vtu_name |-> "", angular_frequency |-> 0, dim |-> 0,
           with_zero |-> FALSE, circuit_definitions_file |-> ""]

SifBaseNames == {"cap", "ind"}
SifFileNames == {n \o ".sif" : n \in SifBaseNames} \cup {"inductance.definitions"}

IdleSif ==
    /\ sjson = [sif_names |-> <<"cap", "ind">>, run_inductance_sim |-> FALSE,
                london |-> FALSE]
    /\ spc = "idle"
    /\ sdir = FALSE
    /\ sfolder = [f \in SifFileNames |-> NoFile]
    /\ swrites = <<>>
    /\ sif_files = <<>>

MeshPaths == {"a.msh", "b.msh"}
NoMeshCall == [path |-> "", gds |-> 0, gds_found |-> FALSE, run_gmsh_gui |-> FALSE,
               reused |-> FALSE, raised |-> "none"]

IdleMesh ==
    /\ mfiles = [f \in MeshPaths |-> 0]
    /\ ginit = FALSE
    /\ glog = <<>>
    /\ gruns = 0
    /\ mcount = 0
    /\ mlast = NoMeshCall

NoMatchCall == [called |-> FALSE, value |-> FALSE]

IdleMatch ==
    /\ lname = <<>>
    /\ lpattern = <<>>
    /\ lout = NoMatchCall

IdleGroup ==
    /\ ppc = "idle"
    /\ layers = <<>>
    /\ dim_tags = <<>>
    /\ new_tags = <<>>
    /\ pidx = 0
    /\ pgroups = <<>>
    /\ pcalls = <<>>

Idle ==
    /\ InitGeom /\ IdleFmt /\ IdleColor /\ IdleResult /\ IdleSif /\ IdleMesh /\ IdleMatch
    /\ IdleGroup

Init == Idle

Next ==
    \/ CallCreateRectangle
    \/ CallCreatePolygon
    \/ CallCreateBox
    \/ CallThickenSheet
    \/ CallSetMaterial
    \/ CallMoveVertically
    \/ CallCopyPaste
    \/ CallDelete
    \/ CallSubtract
    \/ CallUnite
    \/ CallAddMaterial
    \/ CallSetColor
    \/ CallScale
    \/ Return

\* the geometry-command builder driven by an arbitrary caller
Spec == Init /\ [][Next]_vars

-----------------------------------------------------------------------------
(* Properties of the geometry-command builder (checked under Spec) *)

\* the invocation issued nothing, returned nothing and raised nothing
Silent == calls = <<>> /\ ret = PyNone /\ raised = "none"

\* C1: a guarded transform function whose guard fails issues no call to the
\* external session: thicken_sheet (no objects or thickness 0), move_vertically
\* (no objects or z_shift 0), scale (no objects or factor 1), copy_paste, delete
\* (no objects), subtract (no objects or no tool objects), unite (fewer than 2
\* objects); copy_paste then returns an empty list, the others return nothing.
C1_NoCallWhenGuardFails ==
    /\ (op.fn = "thicken_sheet" /\ (op.objects = <<>> \/ op.nums[1] = 0)) => Silent
    /\ (op.fn = "move_vertically" /\ (op.objects = <<>> \/ op.nums[1] = 0)) => Silent
    /\ (op.fn = "scale" /\ (op.objects = <<>> \/ op.nums[1] = 1)) => Silent
    /\ (op.fn = "copy_paste" /\ op.objects = <<>>)
          => calls = <<>> /\ ret = PyList(<<>>) /\ raised = "none"
    /\ (op.fn = "delete" /\ op.objects = <<>>) => Silent
    /\ (op.fn = "subtract" /\ (op.objects = <<>> \/ op.tool_objects = <<>>)) => Silent
    /\ (op.fn = "unite" /\ Len(op.objects) < 2) => Silent

\* scale was invoked on existing objects with the identity factor
C1_Witness ==
    op.fn = "scale" /\ op.objects # <<>> /\ op.nums[1] = 1 /\ calls = <<>>

\* C2: create_rectangle issues no call when width or height is zero and
\* create_box none when any extent is zero, without raising; with all
\* dimensions non-zero each issues exactly one creation call.
C2_ZeroDimensionNoCall ==
    /\ op.fn = "create_rectangle" =>
          /\ raised = "none"
          /\ IF op.nums[1] = 0 \/ op.nums[2] = 0
             THEN calls = <<>>
             ELSE Len(calls) = 1 /\ calls[1].method = "CreateRectangle"
    /\ op.fn = "create_box" =>
          /\ raised = "none"
          /\ IF op.nums[1] = 0 \/ op.nums[2] = 0 \/ op.nums[3] = 0
             THEN calls = <<>>
             ELSE Len(calls) = 1 /\ calls[1].method = "CreateBox"

\* create_box was invoked with only its third extent zero
C2_Witness ==
    /\ op.fn = "create_box"
    /\ op.nums[1] # 0 /\ op.nums[2] # 0 /\ op.nums[3] = 0
    /\ calls = <<>>

\* a point list of zero dimension: empty, or all its points coincide
ZeroDimension(points) ==
    \/ points = <<>>
    \/ \A i \in 1..Len(points) : points[i] = points[1]

\* C3: create_polygon skips creation silently for degenerate geometry: for an
\* empty point list or points spanning zero extent it issues no CreatePolyline
\* call and raises no error.
C3_PolygonSkipsDegenerate ==
    (op.fn = "create_polygon" /\ ZeroDimension(op.points)) => Silent

\* the guard of the invocation, as the claim C4 states it, passed
GuardPasses ==
    CASE op.fn = "create_rectangle" -> op.nums[1] # 0 /\ op.nums[2] # 0
      [] op.fn = "create_polygon"   -> op.points # <<>>
      [] op.fn = "create_box"       -> op.nums[1] # 0 /\ op.nums[2] # 0 /\ op.nums[3] # 0
      [] op.fn = "thicken_sheet"    -> op.objects # <<>> /\ op.nums[1] # 0
      [] op.fn = "set_material"     -> op.objects # <<>>
      [] op.fn = "move_vertically"  -> op.objects # <<>> /\ op.nums[1] # 0
      [] op.fn = "copy_paste"       -> op.objects # <<>>
      [] op.fn = "delete"           -> op.objects # <<>>
      [] op.fn = "subtract"         -> op.objects # <<>> /\ op.tool_objects # <<>>
      [] op.fn = "unite"            -> Len(op.objects) > 1
      [] op.fn = "add_material"     -> TRUE
      [] op.fn = "set_color"        -> op.objects # <<>>
      [] op.fn = "scale"            -> op.objects # <<>> /\ op.nums[1] # 1
      [] OTHER                      -> FALSE

\* C4 as stated: every builder function whose guard passes issues exactly one
\* call into the external session, set_material with solve_inside given and
\* copy_paste with a non-empty object list included.
C4_ExactlyOneCall == GuardPasses => Len(calls) = 1

\* C4 as amended: every builder function whose guard passes issues exactly one
\* call, except set_material with solve_inside given, which issues two
\* ChangeProperty calls, and copy_paste, which issues Copy and then Paste.
C4_OneCallExceptTwo ==
    GuardPasses =>
        IF op.fn = "set_material" /\ op.opts[2] # PyNone
        THEN /\ Len(calls) = 2
             /\ calls[1].method = "ChangeProperty"
             /\ calls[2].method = "ChangeProperty"
        ELSE IF op.fn = "copy_paste"
        THEN /\ Len(calls) = 2
             /\ calls[1].method = "Copy"
             /\ calls[2].method = "Paste"
        ELSE Len(calls) = 1

\* set_material was invoked on existing objects with solve_inside given
C4_Witness ==
    /\ op.fn = "set_material"
    /\ op.objects # <<>>
    /\ op.opts[2] # PyNone
    /\ Len(calls) = 2

-----------------------------------------------------------------------------
(* geometry.py: format_position called on arbitrary nested Python values.    *)
(* The caller builds the argument from leaves by wrapping it into lists and  *)
(* tuples, alone or beside a sibling leaf, and then calls the function.      *)

FmtLeaves == {PyNum(5), PyNum(-12), PyStr("3um")}
FmtStart  == FmtLeaves \cup {PyList(<<>>), PyTuple(<<>>)}

Max(a, b) == IF a < b THEN b ELSE a

\* nesting depth of a value: 0 for a leaf.  The containers built here hold
\* their nested item first or last.
RECURSIVE Depth(_)
Depth(x) ==
    IF x.kind \notin {"list", "tuple"} THEN 0
    ELSE IF x.items = <<>> THEN 1
    ELSE 1 + Max(Depth(x.items[1]), Depth(x.items[Len(x.items)]))

\* the item sequences that hold x alone or beside one sibling leaf
Around(x) == {<<x>>} \cup {<<x, l>> : l \in FmtLeaves} \cup {<<l, x>> : l \in FmtLeaves}

InitFmt ==
    /\ fx \in FmtStart
    /\ funits \in Units
    /\ fout = NotCalled

InitFormat == InitFmt /\ InitGeom /\ IdleColor /\ IdleResult /\ IdleSif /\ IdleMesh /\ IdleMatch
    /\ IdleGroup

BuildList ==
    /\ fout = NotCalled
    /\ Depth(fx) < MaxDepth
    /\ \E items \in Around(fx) : fx' = PyList(items)
    /\ UNCHANGED <<funits, fout>>
    /\ UNCHANGED notFmt

BuildTuple ==
    /\ fout = NotCalled
    /\ Depth(fx) < MaxDepth
    /\ \E items \in Around(fx) : fx' = PyTuple(items)
    /\ UNCHANGED <<funits, fout>>
    /\ UNCHANGED notFmt

CallFormatPosition ==
    /\ fout = NotCalled
    /\ fout' = format_position(fx, funits)
    /\ UNCHANGED <<fx, funits>>
    /\ UNCHANGED notFmt

NextFmt ==
    \/ BuildList
    \/ BuildTuple
    \/ CallFormatPosition

\* format_position applied to every nested value up to MaxDepth
SpecFormat == InitFormat /\ [][NextFmt]_vars

-----------------------------------------------------------------------------
(* Properties of format_position (checked under SpecFormat) *)

\* out is x formatted by the rule of the claim C10: a number becomes
\* str(x) + units, a string stays as it is, and a sequence (list or tuple)
\* becomes a sequence of the same shape with every item formatted by this rule
RECURSIVE FormatsEverySequence(_, _, _)
FormatsEverySequence(x, out, units) ==
    CASE x.kind = "num" -> out = PyStr(StrInt(x.n) \o units)
      [] x.kind = "str" -> out = x
      [] x.kind \in {"list", "tuple"} ->
            /\ out.kind \in {"list", "tuple"}
            /\ Len(out.items) = Len(x.items)
            /\ \A i \in 1..Len(x.items) :
                  FormatsEverySequence(x.items[i], out.items[i], units)

\* out is x formatted by the amended rule: only a list is recursed into, and
\* a tuple is a leaf like a number, formatted as str(x) + units
RECURSIVE FormatsEveryList(_, _, _)
FormatsEveryList(x, out, units) ==
    CASE x.kind = "num"   -> out = PyStr(StrInt(x.n) \o units)
      [] x.kind = "str"   -> out = x
      [] x.kind = "tuple" -> out = PyStr(Repr(x) \o units)
      [] x.kind = "list"  ->
            /\ out.kind = "list"
            /\ Len(out.items) = Len(x.items)
            /\ \A i \in 1..Len(x.items) :
                  FormatsEveryList(x.items[i], out.items[i], units)

\* C10 as stated: format_position returns str(x) + units for a bare number, a
\* string unchanged, and for a sequence nested to any depth a sequence of the
\* same shape with every leaf formatted, so that no sequence is stringified
\* as a whole.
C10_RecursesIntoSequences ==
    fout # NotCalled => FormatsEverySequence(fx, fout, funits)

\* C10 as amended: format_position returns str(x) + units for a bare number, a
\* string unchanged, and for a list nested to any depth a list of the same
\* shape with every item formatted by the same rule; a tuple is not recursed
\* into but stringified as a whole, str(x) + units.
C10_RecursesIntoLists ==
    fout # NotCalled => FormatsEveryList(fx, fout, funits)

\* format_position was called on a list that holds a list that holds a leaf
C10_Witness ==
    /\ fout # NotCalled
    /\ fx.kind = "list"
    /\ Len(fx.items) = 2
    /\ fx.items[1].kind = "list"
    /\ fx.items[1].items # <<>>
    /\ fx.items[1].items[1].kind = "num"
    /\ fout.items[1].items[1] = PyStr(StrInt(fx.items[1].items[1].n) \o funits)

-----------------------------------------------------------------------------
(* geometry.py: color_by_material.  Python floats are modelled in fixed      *)
(* point with six decimals; cos and ** are computed by their power series.   *)

\* one unit of a float: 1.0
FP == 1000000
\* math.pi
Pi == 3141593
\* ln(0.93), negated: 0.93 ** e = exp(-e * 0.072571)
LnBase == 72571

Abs(a) == IF a < 0 THEN -a ELSE a

\* a / b rounded to the nearest integer, for a >= 0 and b > 0
RDiv(a, b) == (2 * a + b) \div (2 * b)

\* the product of two non-negative floats, computed in parts of three
\* decimals so that no intermediate value exceeds 32 bits
MulFP(a, b) ==
    LET ah == a \div 1000
        al == a % 1000
        bh == b \div 1000
        bl == b % 1000
    IN  ah * bh + RDiv(ah * bl + al * bh + RDiv(al * bl, 1000), 1000)

\* the terms k..K of the cosine series of an angle with square x2, after the
\* term of magnitude term: sum of (-1)^k x^(2k) / (2k)!
RECURSIVE CosSeries(_, _, _)
CosSeries(x2, term, k) ==
    IF k > 7 THEN 0
    ELSE LET next == RDiv(MulFP(term, x2), (2 * k - 1) * (2 * k))
         IN  (IF k % 2 = 0 THEN next ELSE -next) + CosSeries(x2, next, k + 1)

\* cos(x) for 0 <= x <= pi/2
CosSmall(x) == FP + CosSeries(MulFP(x, x), FP, 1)

\* math.cos(x): reduced by evenness and period to [0, pi], then to [0, pi/2]
Cos(x) ==
    LET r == Abs(x) % (2 * Pi)
        a == IF r > Pi THEN 2 * Pi - r ELSE r
    IN  IF 2 * a > Pi THEN -CosSmall(Pi - a) ELSE CosSmall(a)

\* the terms k..K of the series of exp(-y): sum of (-1)^k y^k / k!
RECURSIVE ExpSeries(_, _, _)
ExpSeries(y, term, k) ==
    IF k > 9 THEN 0
    ELSE LET next == RDiv(MulFP(term, y), k)
         IN  (IF k % 2 = 0 THEN next ELSE -next) + ExpSeries(y, next, k + 1)

\* 0.93 ** e for e >= 0
Pow093(e) == LET y == MulFP(e, LnBase) IN FP + ExpSeries(y, FP, 1)

\* int(v) of a float v: truncation towards zero
IntOf(v) == IF v < 0 THEN -((-v) \div FP) ELSE v \div FP

\* material_dict.get(material, {})
DictGet(material_dict, material) ==
    IF material \in DOMAIN material_dict /\ material_dict[material].present
    THEN material_dict[material]
    ELSE NoEntry

\* .get("conductivity", 0)
Conductivity(entry) == IF entry.has_conductivity THEN entry.conductivity ELSE 0

\* .get("permittivity", 1.0), in hundredths
Permittivity(entry) == IF entry.has_permittivity THEN entry.permittivity ELSE 100

\* the condition of the fixed highlight colour, ignoring the name "pec"
IsConductor_by_table_only(material, material_dict) ==
    Conductivity(DictGet(material_dict, material)) > 0

\* material == "pec" or material_dict.get(material, {}).get("conductivity", 0) > 0
IsConductor(material, material_dict) ==
    material = "pec" \/ Conductivity(DictGet(material_dict, material)) > 0

\* n = 0.3 * (permittivity - 1.0), the permittivity given in hundredths
RefractiveN(material, material_dict) ==
    3000 * (Permittivity(DictGet(material_dict, material)) - 100)

\* phases with the green channel in phase with n
ColorPhases_green_at_n(n) == <<n - RDiv(Pi, 3), n, n + RDiv(Pi, 3)>>

\* the arguments of cos for the red, green and blue channel
ColorPhases(n) == <<n - RDiv(Pi, 3), n + Pi, n + RDiv(Pi, 3)>>

\* int(100 + 80 * c)
Channel(c) == IntOf(100 * FP + 80 * c)

Color(r, g, b, alpha) == [called |-> TRUE, r |-> r, g |-> g, b |-> b, alpha |-> alpha]

color_by_material(material, material_dict, is_sheet) ==
    IF IsConductor(material, material_dict)
    THEN Color(240, 120, 240, FP \div 2)
    ELSE LET n == RefractiveN(material, material_dict)
             alpha == Pow093(IF is_sheet THEN 2 * n ELSE n)
             ph == ColorPhases(n)
         IN  Color(Channel(Cos(ph[1])), Channel(Cos(ph[2])), Channel(Cos(ph[3])), alpha)

\* the inputs color_by_material is called with
ColorMaterials   == {"pec", "si", "air"}
Conductivities   == {-1, 0, 5}
Permittivities   == {100, 400, 900, 1145}
\* a key of an entry: absent, or present with one of the values
KeyOptions(values) == {<<FALSE, 0>>} \cup {<<TRUE, v>> : v \in values}
Entries ==
    {NoEntry}
    \cup {[present |-> TRUE, has_conductivity |-> c[1], conductivity |-> c[2],
           has_permittivity |-> pm[1], permittivity |-> pm[2]] :
            c \in KeyOptions(Conductivities), pm \in KeyOptions(Permittivities)}
MaterialDicts == [{"pec", "si"} -> Entries]

InitColorInputs ==
    /\ cmat \in ColorMaterials
    /\ cdict \in MaterialDicts
    /\ csheet \in BOOLEAN
    /\ cout = NoColor

InitColor == InitColorInputs /\ InitGeom /\ IdleFmt /\ IdleResult /\ IdleSif /\ IdleMesh /\ IdleMatch
    /\ IdleGroup

CallColorByMaterial ==
    /\ ~cout.called
    /\ cmat # ""
    /\ cout' = color_by_material(cmat, cdict, csheet)
    /\ UNCHANGED <<cmat, cdict, csheet>>
    /\ UNCHANGED notColor

NextColor == CallColorByMaterial

\* color_by_material applied to every material, table and is_sheet
SpecColor == InitColor /\ [][NextColor]_vars

-----------------------------------------------------------------------------
(* Properties of color_by_material (checked under SpecColor) *)

\* the entry of the material in the table, if it has one
HasPositiveConductivity ==
    /\ cmat \in DOMAIN cdict
    /\ cdict[cmat].present
    /\ cdict[cmat].has_conductivity
    /\ cdict[cmat].conductivity > 0

\* the tuple (240, 120, 240, 0.5)
Highlight == [called |-> TRUE, r |-> 240, g |-> 120, b |-> 240, alpha |-> 500000]

\* C8: color_by_material returns exactly (240, 120, 240, 0.5) for the
\* material "pec" and for every material whose table entry has a conductivity
\* above 0, whatever is_sheet, the permittivity and the presence of "pec" in
\* the table are; no other material gets this tuple.
C8_HighlightForConductors ==
    cout.called =>
        IF cmat = "pec" \/ HasPositiveConductivity
        THEN cout = Highlight
        ELSE cout # Highlight

\* color_by_material was called for "pec" with no entry for it in the table
C8_Witness ==
    /\ cout.called
    /\ cmat = "pec"
    /\ ~cdict["pec"].present
    /\ ~cdict["si"].present
    /\ cout = Highlight

\* the material is not "pec" and has no positive conductivity
NonConducting == cmat # "pec" /\ ~HasPositiveConductivity

\* the permittivity of the material in hundredths, 1.0 when it has none
PermittivityOfCmat ==
    IF cmat \in DOMAIN cdict /\ cdict[cmat].present /\ cdict[cmat].has_permittivity
    THEN cdict[cmat].permittivity
    ELSE 100

\* n = 0.3 * (p - 1)
NOfCmat == (3 * (PermittivityOfCmat - 100) * (FP \div 10)) \div 100

\* alpha = 0.93 ** n for a solid and 0.93 ** (2n) for a sheet
AlphaAsClaimed ==
    cout.alpha = IF csheet THEN Pow093(2 * NOfCmat) ELSE Pow093(NOfCmat)

\* C9 as stated: for a non-conducting material with permittivity p and
\* n = 0.3 * (p - 1), R = int(100 + 80 cos(n - pi/3)), G = int(100 + 80 cos(n)),
\* B = int(100 + 80 cos(n + pi/3)), and alpha = 0.93 ** n, or 0.93 ** (2n) for
\* a sheet.
C9_GreenInPhase ==
    (cout.called /\ NonConducting) =>
        /\ cout.r = IntOf(100 * FP + 80 * Cos(NOfCmat - RDiv(Pi, 3)))
        /\ cout.g = IntOf(100 * FP + 80 * Cos(NOfCmat))
        /\ cout.b = IntOf(100 * FP + 80 * Cos(NOfCmat + RDiv(Pi, 3)))
        /\ AlphaAsClaimed

\* C9 as amended: as stated, except that the green channel uses the phase
\* n + pi: G = int(100 + 80 cos(n + pi)).
C9_GreenOpposite ==
    (cout.called /\ NonConducting) =>
        /\ cout.r = IntOf(100 * FP + 80 * Cos(NOfCmat - RDiv(Pi, 3)))
        /\ cout.g = IntOf(100 * FP + 80 * Cos(NOfCmat + Pi))
        /\ cout.b = IntOf(100 * FP + 80 * Cos(NOfCmat + RDiv(Pi, 3)))
        /\ AlphaAsClaimed

\* color_by_material was called for silicon (permittivity 11.45) as a solid
\* and returned (60, 179, 59, 0.7965...), the tuple the Python function returns
C9_Witness ==
    /\ cout.called
    /\ cmat = "si"
    /\ ~csheet
    /\ cdict["si"].present /\ ~cdict["si"].has_conductivity
    /\ cdict["si"].has_permittivity /\ cdict["si"].permittivity = 1145
    /\ cout.r = 60 /\ cout.g = 179 /\ cout.b = 59
    /\ Abs(cout.alpha - 796515) <= 2

-----------------------------------------------------------------------------
(* cross_section_helpers.py: get_cross_section_capacitance_and_inductance.   *)
(* The solver writes and removes its output files at any time; every file    *)
(* present holds a well-formed table, identified by a number.                *)

\* the tables a file can hold
Contents == {1, 2}

\* Path(...).is_file(); also whether opening the file succeeds
IsFile(files, f) == files[f] # 0

\* the matrix parsed from (or computed from) the named file
Matrix(files, f) == [none |-> FALSE, from |-> f, data |-> files[f], names |-> 0]

\* a data file choice without the index-suffixed fallback
LondonDataFile_no_fallback(files) == "inductance.dat"

\* the impedance data file: inductance.dat, or inductance.dat.0 when that is no file
LondonDataFile(files) ==
    IF IsFile(files, "inductance.dat") THEN "inductance.dat" ELSE "inductance.dat.0"

\* the value returned by the function for the folder and the inductance mode
get_cross_section_capacitance_and_inductance(files, london) ==
    IF ~IsFile(files, "capacitance.dat")
    THEN \* read_csv raises FileNotFoundError
         [Cs |-> NoMatrix, Ls |-> NoMatrix]
    ELSE LET c_matrix == Matrix(files, "capacitance.dat") IN
         IF london
         THEN LET l_matrix_file == LondonDataFile(files) IN
              IF ~IsFile(files, l_matrix_file)
              THEN \* read_csv raises FileNotFoundError
                   [Cs |-> c_matrix, Ls |-> NoMatrix]
              ELSE IF ~IsFile(files, "inductance.dat.names")
              THEN \* open raises FileNotFoundError
                   [Cs |-> c_matrix, Ls |-> NoMatrix]
              ELSE [Cs |-> c_matrix,
                    Ls |-> [none |-> FALSE, from |-> l_matrix_file,
                            data |-> files[l_matrix_file],
                            names |-> files["inductance.dat.names"]]]
         ELSE IF ~IsFile(files, "capacitance0.dat")
              THEN \* read_csv raises FileNotFoundError
                   [Cs |-> c_matrix, Ls |-> NoMatrix]
              ELSE [Cs |-> c_matrix, Ls |-> Matrix(files, "capacitance0.dat")]

\* the solver writes an output file; whatever was returned before is history
SolverWrites ==
    /\ \E f \in OutputFiles, c \in Contents :
          /\ rfiles[f] # c
          /\ rfiles' = [rfiles EXCEPT ![f] = c]
    /\ rout' = NoResult
    /\ UNCHANGED notResult

\* an output file is removed (a fresh run, a cleaned folder)
FileRemoved ==
    /\ \E f \in OutputFiles :
          /\ rfiles[f] # 0
          /\ rfiles' = [rfiles EXCEPT ![f] = 0]
    /\ rout' = NoResult
    /\ UNCHANGED notResult

\* every FileNotFoundError is caught inside the function: it raises nothing
CallGetResults ==
    /\ \E london \in BOOLEAN :
          rout' = [called |-> TRUE, london |-> london, raised |-> "none",
                   value |-> get_cross_section_capacitance_and_inductance(rfiles, london)]
    /\ UNCHANGED rfiles
    /\ UNCHANGED notResult

InitResult == Idle

NextResult ==
    \/ SolverWrites
    \/ FileRemoved
    \/ CallGetResults

\* the result parser called on every state of the output folder
SpecResult == InitResult /\ [][NextResult]_vars

-----------------------------------------------------------------------------
(* Properties of the result parser (checked under SpecResult) *)

Exists(f) == rfiles[f] # 0

\* the inductance inputs of the mode of the last call exist
InductanceInputsExist ==
    IF rout.london
    THEN (Exists("inductance.dat") \/ Exists("inductance.dat.0"))
         /\ Exists("inductance.dat.names")
    ELSE Exists("capacitance0.dat")

\* C5: the parser raises nothing for a missing file and returns a mapping with
\* exactly the keys Cs and Ls; Cs is the parsed matrix iff capacitance.dat
\* exists (else None); Ls is not None iff capacitance.dat exists and the
\* mode's inductance inputs exist (London mode: inductance.dat or, failing
\* that, inductance.dat.0, together with inductance.dat.names; otherwise
\* capacitance0.dat); Ls is None whenever Cs is None.
C5_AbsentFilesAreUnavailable ==
    rout.called =>
        /\ rout.raised = "none"
        /\ DOMAIN rout.value = {"Cs", "Ls"}
        /\ IF Exists("capacitance.dat")
           THEN rout.value.Cs = [none |-> FALSE, from |-> "capacitance.dat",
                                 data |-> rfiles["capacitance.dat"], names |-> 0]
           ELSE rout.value.Cs.none
        /\ ~rout.value.Ls.none <=> (Exists("capacitance.dat") /\ InductanceInputsExist)
        /\ rout.value.Cs.none => rout.value.Ls.none

\* the parser was called in London mode on a folder that holds the
\* capacitance, the names and only the index-suffixed impedance file
C5_Witness ==
    /\ rout.called
    /\ rout.london
    /\ Exists("capacitance.dat")
    /\ ~Exists("inductance.dat")
    /\ Exists("inductance.dat.0")
    /\ Exists("inductance.dat.names")
    /\ ~rout.value.Ls.none
    /\ rout.value.Ls.from = "inductance.dat.0"

-----------------------------------------------------------------------------
(* cross_section_helpers.py: produce_cross_section_sif_files.  Each save is  *)
(* a step of the invocation; the content of a saved file is what the         *)
(* generator of elmer_helpers was called with.                               *)

\* a constant for inductance simulations
angular_frequency == 500

\* the configurations the function is called with
SifJsons ==
    [sif_names : SifBaseNames \X SifBaseNames, run_inductance_sim : BOOLEAN,
     london : BOOLEAN]

\* sif_capacitance(json_data, folder_path, vtu_name=..., angular_frequency=..., dim=..., with_zero=...)
sif_capacitance(vtu_name, frequency, dim, with_zero) ==
    [gen |-> "sif_capacitance", vtu_name |-> vtu_name, angular_frequency |-> frequency,
     dim |-> dim, with_zero |-> with_zero, circuit_definitions_file |-> ""]

\* sif_inductance(json_data, folder_path, angular_frequency, circuit_definitions_file)
sif_inductance(frequency, circuit_definitions_file) ==
    [gen |-> "sif_inductance", vtu_name |-> "", angular_frequency |-> frequency,
     dim |-> 0, with_zero |-> FALSE, circuit_definitions_file |-> circuit_definitions_file]

\* sif_circuit_definitions(json_data)
sif_circuit_definitions ==
    [gen |-> "sif_circuit_definitions", vtu_name |-> "", angular_frequency |-> 0,
     dim |-> 0, with_zero |-> FALSE, circuit_definitions_file |-> ""]

\* a continuation that saves the inductance file without its definitions file
AfterCapacitance_no_definitions(json) ==
    IF ~json.run_inductance_sim THEN "return"
    ELSE IF json.london THEN "inductance"
    ELSE "capacitance0"

\* what follows the first save: the branches on run_inductance_sim and on
\* use_london_equations(json_data)
AfterCapacitance(json) ==
    IF ~json.run_inductance_sim THEN "return"
    ELSE IF json.london THEN "definitions"
    ELSE "capacitance0"

\* save(file_name, content): the folder after the write
Save(folder, file_name, content) == [folder EXCEPT ![file_name] = content]

\* the call: folder_path.mkdir(exist_ok=True, parents=True), sif_files = [...]
SifStart ==
    /\ spc \in {"idle", "done"}
    /\ \E json \in SifJsons : sjson' = json
    /\ sdir' = TRUE
    /\ swrites' = <<>>
    /\ sif_files' = <<>>
    /\ spc' = "capacitance"
    /\ UNCHANGED sfolder
    /\ UNCHANGED notSif

SifSaveCapacitance ==
    /\ spc = "capacitance"
    /\ LET file_name == sjson.sif_names[1] \o ".sif"
           content == sif_capacitance(sjson.sif_names[1], 0, 2, FALSE)
       IN  /\ sfolder' = Save(sfolder, file_name, content)
           /\ swrites' = Append(swrites, [name |-> file_name, content |-> content])
           /\ sif_files' = <<file_name>>
    /\ spc' = AfterCapacitance(sjson)
    /\ UNCHANGED <<sjson, sdir>>
    /\ UNCHANGED notSif

SifSaveDefinitions ==
    /\ spc = "definitions"
    /\ LET file_name == "inductance.definitions"
           content == sif_circuit_definitions
       IN  /\ sfolder' = Save(sfolder, file_name, content)
           /\ swrites' = Append(swrites, [name |-> file_name, content |-> content])
    /\ spc' = "inductance"
    /\ UNCHANGED <<sjson, sdir, sif_files>>
    /\ UNCHANGED notSif

SifSaveInductance ==
    /\ spc = "inductance"
    /\ LET file_name == sjson.sif_names[2] \o ".sif"
           content == sif_inductance(angular_frequency, "inductance.definitions")
       IN  /\ sfolder' = Save(sfolder, file_name, content)
           /\ swrites' = Append(swrites, [name |-> file_name, content |-> content])
           /\ sif_files' = Append(sif_files, file_name)
    /\ spc' = "return"
    /\ UNCHANGED <<sjson, sdir>>
    /\ UNCHANGED notSif

SifSaveCapacitanceZero ==
    /\ spc = "capacitance0"
    /\ LET file_name == sjson.sif_names[2] \o ".sif"
           content == sif_capacitance(sjson.sif_names[2], 0, 2, TRUE)
       IN  /\ sfolder' = Save(sfolder, file_name, content)
           /\ swrites' = Append(swrites, [name |-> file_name, content |-> content])
           /\ sif_files' = Append(sif_files, file_name)
    /\ spc' = "return"
    /\ UNCHANGED <<sjson, sdir>>
    /\ UNCHANGED notSif

\* return sif_files
SifReturn ==
    /\ spc = "return"
    /\ spc' = "done"
    /\ UNCHANGED <<sjson, sdir, sfolder, swrites, sif_files>>
    /\ UNCHANGED notSif

InitSif == Idle

NextSif ==
    \/ SifStart
    \/ SifSaveCapacitance
    \/ SifSaveDefinitions
    \/ SifSaveInductance
    \/ SifSaveCapacitanceZero
    \/ SifReturn

\* the sif writer called again and again on one folder
SpecSif == InitSif /\ [][NextSif]_vars

-----------------------------------------------------------------------------
(* Properties of the sif writer (checked under SpecSif) *)

\* the capacitance-only file of the invocation
FirstSif ==
    [name |-> sjson.sif_names[1] \o ".sif",
     content |-> [gen |-> "sif_capacitance", vtu_name |-> sjson.sif_names[1],
                  angular_frequency |-> 0, dim |-> 2, with_zero |-> FALSE,
                  circuit_definitions_file |-> ""]]

\* C6: the writer always saves first the capacitance-only file
\* <sif_names[0]>.sif (angular frequency 0, dim 2, with_zero false) and returns
\* it first; it returns one file name when run_inductance_sim is false and two
\* when it is true, the second being <sif_names[1]>.sif.  In London mode
\* inductance.definitions is saved before the second sif file, which is
\* generated with angular frequency 500 and references the definitions file;
\* without that mode the second file is a capacitance file with with_zero true
\* and no definitions file is saved.
C6_SifFilesWritten ==
    /\ swrites # <<>> => swrites[1] = FirstSif
    /\ spc = "done" =>
          /\ sif_files[1] = FirstSif.name
          /\ IF ~sjson.run_inductance_sim
             THEN Len(sif_files) = 1 /\ Len(swrites) = 1
             ELSE /\ Len(sif_files) = 2
                  /\ sif_files[2] = sjson.sif_names[2] \o ".sif"
                  /\ IF sjson.london
                     THEN /\ Len(swrites) = 3
                          /\ swrites[2].name = "inductance.definitions"
                          /\ swrites[2].content.gen = "sif_circuit_definitions"
                          /\ swrites[3].name = sif_files[2]
                          /\ swrites[3].content.gen = "sif_inductance"
                          /\ swrites[3].content.angular_frequency = 500
                          /\ swrites[3].content.circuit_definitions_file = swrites[2].name
                     ELSE /\ Len(swrites) = 2
                          /\ swrites[2].name = sif_files[2]
                          /\ swrites[2].content.gen = "sif_capacitance"
                          /\ swrites[2].content.with_zero
                          /\ swrites[2].content.angular_frequency = 0
                          /\ \A i \in 1..Len(swrites) :
                                swrites[i].name # "inductance.definitions"

\* an invocation in London mode has returned its two file names
C6_Witness ==
    /\ spc = "done"
    /\ sjson.run_inductance_sim
    /\ sjson.london
    /\ Len(sif_files) = 2
    /\ sfolder["inductance.definitions"].gen = "sif_circuit_definitions"

-----------------------------------------------------------------------------
(* cross_section_helpers.py: produce_cross_section_mesh, as far as the mesh  *)
(* file and the calls into the engines go.  The mesh written is identified   *)
(* by the layout it was generated from.                                      *)

\* the layouts json_data["gds_file"] can name
GdsFiles == {1, 2}

\* the configurations the function is called with: the layout, whether the
\* layout file can be read, and workflow.run_gmsh_gui
MeshJsons == [gds : GdsFiles, gds_found : BOOLEAN, run_gmsh_gui : BOOLEAN]

\* an existence test that never finds the file
MeshExists_never(files, msh_file) == FALSE

\* Path(msh_file).exists()
MeshExists(files, msh_file) == files[msh_file] # 0

\* the calls of a run up to the failing layout.read
FailedRunLog == <<"gmsh.initialize", "layout.read">>

\* the calls of a complete run, in order
FullRunLog(json) ==
    <<"gmsh.initialize", "layout.read", "gmsh.model.add", "gmsh.model.occ.fragment",
      "gmsh.model.occ.synchronize", "set_meshing", "gmsh.model.addPhysicalGroup",
      "gmsh.model.mesh.generate", "optimize_mesh", "gmsh.write">>
    \o (IF json.run_gmsh_gui THEN <<"gmsh.fltk.run">> ELSE <<>>)
    \o <<"gmsh.finalize">>

ProduceCrossSectionMesh ==
    /\ mcount < MaxMeshCalls
    /\ mcount' = mcount + 1
    /\ \E json \in MeshJsons, msh_file \in MeshPaths :
          IF MeshExists(mfiles, msh_file)
          THEN \* "Reusing existing mesh": return at once
               /\ mlast' = [path |-> msh_file, gds |-> json.gds,
                            gds_found |-> json.gds_found,
                            run_gmsh_gui |-> json.run_gmsh_gui,
                            reused |-> TRUE, raised |-> "none"]
               /\ UNCHANGED <<mfiles, ginit, glog, gruns>>
          ELSE IF ~json.gds_found
          THEN \* layout.read raises; gmsh stays initialized, nothing is written
               /\ mlast' = [path |-> msh_file, gds |-> json.gds,
                            gds_found |-> json.gds_found,
                            run_gmsh_gui |-> json.run_gmsh_gui,
                            reused |-> FALSE, raised |-> "RuntimeError"]
               /\ ginit' = TRUE
               /\ glog' = FailedRunLog
               /\ gruns' = gruns + 1
               /\ UNCHANGED mfiles
          ELSE /\ mlast' = [path |-> msh_file, gds |-> json.gds,
                            gds_found |-> json.gds_found,
                            run_gmsh_gui |-> json.run_gmsh_gui,
                            reused |-> FALSE, raised |-> "none"]
               /\ ginit' = FALSE
               /\ glog' = FullRunLog(json)
               /\ gruns' = gruns + 1
               /\ mfiles' = [mfiles EXCEPT ![msh_file] = json.gds]
    /\ UNCHANGED notMesh

\* somebody removes a mesh file, so that the next call regenerates it
MeshFileRemoved ==
    /\ \E f \in MeshPaths :
          /\ mfiles[f] # 0
          /\ mfiles' = [mfiles EXCEPT ![f] = 0]
    /\ UNCHANGED <<ginit, glog, gruns, mcount, mlast>>
    /\ UNCHANGED notMesh

InitMesh == Idle

NextMesh ==
    \/ ProduceCrossSectionMesh
    \/ MeshFileRemoved

\* the mesh producer called again and again
SpecMesh == InitMesh /\ [][NextMesh]_vars

-----------------------------------------------------------------------------
(* Properties of the mesh producer (checked under SpecMesh) *)

\* C7: if the target mesh file exists when produce_cross_section_mesh is
\* called, the call issues no call to the meshing engine (not even
\* initialize), does not read the layout and does not modify the file,
\* whatever configuration it is given; so calls after the one that wrote the
\* file leave the file and the engine as they were.
C7_ExistingMeshIsReused ==
    [][(mcount' # mcount /\ mfiles[mlast'.path] # 0)
          => /\ mfiles' = mfiles
             /\ ginit' = ginit
             /\ glog' = glog
             /\ gruns' = gruns
             /\ mlast'.raised = "none"]_vars

\* a call found the mesh file written by an earlier call from another layout
C7_Witness ==
    /\ mcount >= 2
    /\ mlast.reused
    /\ mfiles[mlast.path] # 0
    /\ mfiles[mlast.path] # mlast.gds
    /\ gruns = 1

-----------------------------------------------------------------------------
(* geometry.py: match_layer.  Strings are sequences of characters; the       *)
(* regular expression is built as the code builds it and matched as          *)
(* re.match matches it.                                                      *)

\* the characters of layer names and of layer patterns
NameChars    == {"a", ".", "\n"}
PatternChars == {"a", ".", "*", "\n"}

\* the characters re.escape puts a backslash before
SpecialChars == {"*", ".", "\n", "\\", "^", "$"}

\* re.escape(s)
RECURSIVE ReEscape(_)
ReEscape(s) ==
    IF s = <<>> THEN <<>>
    ELSE (IF Head(s) \in SpecialChars THEN <<"\\", Head(s)>> ELSE <<Head(s)>>)
         \o ReEscape(Tail(s))

\* s.replace(r"\*", ".*"): every backslash-star, found from the left
RECURSIVE ReplaceEscapedStar(_)
ReplaceEscapedStar(s) ==
    IF s = <<>> THEN <<>>
    ELSE IF Len(s) >= 2 /\ s[1] = "\\" /\ s[2] = "*"
    THEN <<".", "*">> \o ReplaceEscapedStar(SubSeq(s, 3, Len(s)))
    ELSE <<Head(s)>> \o ReplaceEscapedStar(Tail(s))

\* "^" + ... + "$"
AnchoredPattern(body) == <<"^">> \o body \o <<"$">>

\* whether the regular expression re matches name from position j on.
\* "^" holds at the start, "$" at the end and before a newline that ends the
\* string, "." matches any character but a newline, a backslash makes the
\* next character a literal.
RECURSIVE ReMatchFrom(_, _, _)
ReMatchFrom(re, name, j) ==
    IF re = <<>> THEN TRUE
    ELSE IF re[1] = "^"
    THEN j = 1 /\ ReMatchFrom(Tail(re), name, j)
    ELSE IF re[1] = "$"
    THEN /\ \/ j = Len(name) + 1
            \/ j = Len(name) /\ name[j] = "\n"
         /\ ReMatchFrom(Tail(re), name, j)
    ELSE IF re[1] = "\\"
    THEN /\ j <= Len(name)
         /\ name[j] = re[2]
         /\ ReMatchFrom(SubSeq(re, 3, Len(re)), name, j + 1)
    ELSE IF re[1] = "." /\ Len(re) >= 2 /\ re[2] = "*"
    THEN \E k \in j..(Len(name) + 1) :
            /\ \A i \in j..(k - 1) : name[i] # "\n"
            /\ ReMatchFrom(SubSeq(re, 3, Len(re)), name, k)
    ELSE IF re[1] = "."
    THEN /\ j <= Len(name)
         /\ name[j] # "\n"
         /\ ReMatchFrom(Tail(re), name, j + 1)
    ELSE /\ j <= Len(name)
         /\ name[j] = re[1]
         /\ ReMatchFrom(Tail(re), name, j + 1)

\* bool(re.match(pattern, layer_name))
match_layer(layer_name, layer_pattern) ==
    LET pattern == AnchoredPattern(ReplaceEscapedStar(ReEscape(layer_pattern)))
    IN  ReMatchFrom(pattern, layer_name, 1)

InitMatchInputs ==
    /\ lname \in SeqsUpTo(NameChars, MaxLayerLen)
    /\ lpattern \in SeqsUpTo(PatternChars, MaxLayerLen)
    /\ lout = NoMatchCall

InitMatch ==
    InitMatchInputs /\ InitGeom /\ IdleFmt /\ IdleColor /\ IdleResult /\ IdleSif /\ IdleMesh
    /\ IdleGroup

CallMatchLayer ==
    /\ ~lout.called
    /\ lout' = [called |-> TRUE, value |-> match_layer(lname, lpattern)]
    /\ UNCHANGED <<lname, lpattern>>
    /\ UNCHANGED notMatch

NextMatch == CallMatchLayer

\* match_layer applied to every layer name and pattern up to MaxLayerLen
SpecMatch == InitMatch /\ [][NextMatch]_vars

-----------------------------------------------------------------------------
(* Properties of match_layer (checked under SpecMatch) *)

\* the whole name matches the whole pattern, "*" standing for any substring
\* and every other character for itself
RECURSIVE GlobMatches(_, _)
GlobMatches(name, pat) ==
    IF pat = <<>> THEN name = <<>>
    ELSE IF Head(pat) = "*"
    THEN \E k \in 0..Len(name) : GlobMatches(SubSeq(name, k + 1, Len(name)), Tail(pat))
    ELSE name # <<>> /\ Head(name) = Head(pat) /\ GlobMatches(Tail(name), Tail(pat))

\* the same, "*" standing for any substring that holds no newline
RECURSIVE LineGlobMatches(_, _)
LineGlobMatches(name, pat) ==
    IF pat = <<>> THEN name = <<>>
    ELSE IF Head(pat) = "*"
    THEN \E k \in 0..Len(name) :
            /\ \A i \in 1..k : name[i] # "\n"
            /\ LineGlobMatches(SubSeq(name, k + 1, Len(name)), Tail(pat))
    ELSE name # <<>> /\ Head(name) = Head(pat) /\ LineGlobMatches(Tail(name), Tail(pat))

\* C11 as stated: match_layer returns True iff the whole layer name matches
\* the whole pattern, where each "*" matches any (possibly empty) substring and
\* every other pattern character, regex metacharacters included, matches only
\* itself.
C11_WholeNameGlob ==
    lout.called => (lout.value <=> GlobMatches(lname, lpattern))

\* What match_layer computes instead: True iff the layer name, or the layer
\* name without one newline that ends it, matches the whole pattern, where
\* each "*" matches any (possibly empty) substring that holds no newline and
\* every other pattern character matches only itself.
MatchLayerIsLineGlob ==
    lout.called =>
        (lout.value <=>
            \/ LineGlobMatches(lname, lpattern)
            \/ /\ lname # <<>>
               /\ lname[Len(lname)] = "\n"
               /\ LineGlobMatches(SubSeq(lname, 1, Len(lname) - 1), lpattern))

\* match_layer accepted a name that is the pattern followed by a newline
AcceptsTrailingNewline ==
    /\ lout.called
    /\ lname = <<"a", "\n">>
    /\ lpattern = <<"a">>
    /\ lout.value

\* match_layer rejected a name whose "*" part holds a newline
RejectsNewlineUnderStar ==
    /\ lout.called
    /\ lname = <<"a", "\n", "a">>
    /\ lpattern = <<"a", "*", "a">>
    /\ ~lout.value

-----------------------------------------------------------------------------
(* cross_section_helpers.py: produce_cross_section_mesh, one run from the    *)
(* layers of the layout to the generated mesh.  A dictionary is a sequence   *)
(* of entries [name, dts] in insertion order; a (dimension, tag) pair is a   *)
(* tuple <<d, t>>.  What gmsh answers is chosen among the possible answers.  *)

\* the keys of a dictionary
Keys(dict) == {dict[i].name : i \in 1..Len(dict)}

\* dict.get(name, default)
TagsGet(dict, name, default) ==
    IF name \in Keys(dict)
    THEN dict[CHOOSE i \in 1..Len(dict) : dict[i].name = name].dts
    ELSE default

\* dict[name] = dts: a key the dictionary has keeps its place
TagsSet(dict, name, dts) ==
    IF name \in Keys(dict)
    THEN [i \in 1..Len(dict) |->
             IF dict[i].name = name THEN [name |-> name, dts |-> dts] ELSE dict[i]]
    ELSE Append(dict, [name |-> name, dts |-> dts])

\* [x for xs in seqs for x in xs]
RECURSIVE Flatten(_)
Flatten(seqs) == IF seqs = <<>> THEN <<>> ELSE Head(seqs) \o Flatten(Tail(seqs))

\* the excitation groups a metal layer can name
Excitations == {1, 2}

\* a layer of json_data["layers"]: its name, whether it is a metal layer and
\* of which excitation, and how many polygons the layout holds on its layer
LayerOptions(name) ==
    {[name |-> name, metal |-> FALSE, excitation |-> 0, polygons |-> n] :
        n \in 0..MaxPolys}
    \cup {[name |-> name, metal |-> TRUE, excitation |-> e, polygons |-> n] :
             e \in Excitations, n \in 0..MaxPolys}

\* json_data["layers"]: one or two layers; a layer may carry the name of an
\* outer boundary
LayerConfigs ==
    {<<a>> : a \in LayerOptions("signal")}
    \cup {<<a, b>> : a \in LayerOptions("signal"),
                     b \in LayerOptions("ground") \cup LayerOptions("xmin_boundary")}

\* the loop over layers.items(): every polygon of a layer gives one surface
\* (its hull with the holes cut), with tags in the order of creation
RECURSIVE LayerDimTags(_, _)
LayerDimTags(ls, next) ==
    IF ls = <<>> THEN <<>>
    ELSE <<[name |-> Head(ls).name,
            dts  |-> [k \in 1..Head(ls).polygons |-> <<2, next + k - 1>>]]>>
         \o LayerDimTags(Tail(ls), next + Head(ls).polygons)

\* all_dim_tags
AllDimTags(dict) == Flatten([i \in 1..Len(dict) |-> dict[i].dts])

\* what gmsh.model.occ.fragment answers for the objects all: every object
\* stays whole or is split into itself and the part it shares with others
FragmentAnswers(all) ==
    {[i \in 1..Len(all) |->
         IF split[i] THEN <<all[i], <<2, Len(all) + 1>>>> ELSE <<all[i]>>] :
     split \in [1..Len(all) -> BOOLEAN]}

\* dim_tags_map[old_tag], with dim_tags_map = dict(zip(all_dim_tags, imp))
DimTagsMap(all, imp, old_tag) == imp[CHOOSE i \in 1..Len(all) : all[i] = old_tag]

\* new_tags, built from dim_tags and the answer of fragment
FragmentedTags(dict, imp) ==
    [i \in 1..Len(dict) |->
        [name |-> dict[i].name,
         dts  |-> Flatten([k \in 1..Len(dict[i].dts) |->
                              DimTagsMap(AllDimTags(dict), imp, dict[i].dts[k])])]]

\* get_metal_layers(layers)
get_metal_layers(ls) == SelectSeq(ls, LAMBDA l : l.metal)

\* get_recursive_children(exc_dts): the curves that bound the surfaces and
\* the points that bound the curves; curves says how many curves there are
get_recursive_children(exc_dts, excitation, curves) ==
    IF exc_dts = <<>> THEN <<>>
    ELSE [k \in 1..curves |-> <<1, 10 * excitation + k>>] \o <<<<0, excitation>>>>

\* f"excitation_{excitation}_boundary"
ExcitationKey(excitation) == "excitation_" \o StrNat(excitation) \o "_boundary"

\* the dimension-tag pairs of the metal layers of one excitation
ExcDts(tags, metal_layers, excitation) ==
    Flatten([i \in 1..Len(metal_layers) |->
                IF metal_layers[i].excitation = excitation
                THEN TagsGet(tags, metal_layers[i].name, <<>>)
                ELSE <<>>])

\* the loop over the excitations, here in ascending order
RECURSIVE AddExcitationBoundaries(_, _, _, _)
AddExcitationBoundaries(tags, metal_layers, excitations, curves) ==
    IF excitations = {} THEN tags
    ELSE LET excitation == CHOOSE e \in excitations : \A f \in excitations : e <= f
             exc_dts == ExcDts(tags, metal_layers, excitation)
             children == get_recursive_children(exc_dts, excitation, curves[excitation])
         IN  AddExcitationBoundaries(
                 TagsSet(tags, ExcitationKey(excitation),
                         SelectSeq(children, LAMBDA dt : dt[1] = 1)),
                 metal_layers, excitations \ {excitation}, curves)

\* the keys of get_outer_bcs, in the order they are set
OuterKeys == <<"xmin_boundary", "xmax_boundary", "ymin_boundary", "ymax_boundary">>

\* get_outer_bcs(bbox): for every side the curves gmsh finds in the box
\* around it, one curve or none
get_outer_bcs(found) ==
    [i \in 1..Len(OuterKeys) |->
        [name |-> OuterKeys[i],
         dts  |-> IF found[i] THEN <<<<1, 30 + i>>>> ELSE <<>>]]

\* new_tags.update(other)
RECURSIVE TagsUpdate(_, _)
TagsUpdate(dict, other) ==
    IF other = <<>> THEN dict
    ELSE TagsUpdate(TagsSet(dict, Head(other).name, Head(other).dts), Tail(other))

\* a registration that takes every set for a set of surfaces
PhysicalGroupDim_surface(dts) == 2

\* max(d for d, _ in dts)
PhysicalGroupDim(dts) ==
    CHOOSE d \in {dts[k][1] : k \in 1..Len(dts)} :
        \A k \in 1..Len(dts) : dts[k][1] <= d

InitGroupInputs ==
    /\ ppc = "start"
    /\ layers \in LayerConfigs
    /\ dim_tags = <<>>
    /\ new_tags = <<>>
    /\ pidx = 0
    /\ pgroups = <<>>
    /\ pcalls = <<>>

InitGroup ==
    /\ InitGroupInputs
    /\ InitGeom /\ IdleFmt /\ IdleColor /\ IdleResult /\ IdleSif /\ IdleMesh /\ IdleMatch

\* lines 76-102: the model is added and the surfaces of every layer are made
BuildSurfaces ==
    /\ ppc = "start"
    /\ dim_tags' = LayerDimTags(layers, 1)
    /\ pcalls' = Append(pcalls, "gmsh.model.add")
    /\ ppc' = "fragment"
    /\ UNCHANGED <<layers, new_tags, pidx, pgroups>>
    /\ UNCHANGED notGroup

\* lines 104-111: fragment, the tags remapped, synchronize
Fragment ==
    /\ ppc = "fragment"
    /\ \E imp \in FragmentAnswers(AllDimTags(dim_tags)) :
          new_tags' = FragmentedTags(dim_tags, imp)
    /\ pcalls' = pcalls \o <<"gmsh.model.occ.fragment", "gmsh.model.occ.synchronize">>
    /\ ppc' = "set_meshing"
    /\ UNCHANGED <<layers, dim_tags, pidx, pgroups>>
    /\ UNCHANGED notGroup

\* lines 114-116
SetMeshing ==
    /\ ppc = "set_meshing"
    /\ pcalls' = Append(pcalls, "set_meshing")
    /\ ppc' = "excitations"
    /\ UNCHANGED <<layers, dim_tags, new_tags, pidx, pgroups>>
    /\ UNCHANGED notGroup

\* lines 119-123
ExcitationBoundaries ==
    /\ ppc = "excitations"
    /\ LET metal_layers == get_metal_layers(layers)
           excitations == {metal_layers[i].excitation : i \in 1..Len(metal_layers)}
       IN  \E curves \in [Excitations -> 1..2] :
              new_tags' = AddExcitationBoundaries(new_tags, metal_layers, excitations, curves)
    /\ ppc' = "outer"
    /\ UNCHANGED <<layers, dim_tags, pidx, pgroups, pcalls>>
    /\ UNCHANGED notGroup

\* line 126
OuterBoundaries ==
    /\ ppc = "outer"
    /\ \E found \in [1..Len(OuterKeys) -> BOOLEAN] :
          new_tags' = TagsUpdate(new_tags, get_outer_bcs(found))
    /\ ppc' = "groups"
    /\ pidx' = 1
    /\ UNCHANGED <<layers, dim_tags, pgroups, pcalls>>
    /\ UNCHANGED notGroup

\* lines 129-133: one turn of the loop over new_tags.items().  The group is
\* recorded with the name handed to apply_elmer_layer_prefix.
RegisterGroup ==
    /\ ppc = "groups"
    /\ pidx <= Len(new_tags)
    /\ LET name == new_tags[pidx].name
           dts  == new_tags[pidx].dts
       IN  IF dts # <<>>
           THEN /\ pgroups' = Append(pgroups,
                                 [dim  |-> PhysicalGroupDim(dts),
                                  tags |-> [k \in 1..Len(dts) |-> dts[k][2]],
                                  name |-> name])
                /\ pcalls' = Append(pcalls, "gmsh.model.addPhysicalGroup")
           ELSE UNCHANGED <<pgroups, pcalls>>
    /\ pidx' = pidx + 1
    /\ UNCHANGED <<ppc, layers, dim_tags, new_tags>>
    /\ UNCHANGED notGroup

\* line 136
GenerateMesh ==
    /\ ppc = "groups"
    /\ pidx > Len(new_tags)
    /\ pcalls' = Append(pcalls, "gmsh.model.mesh.generate")
    /\ ppc' = "write"
    /\ UNCHANGED <<layers, dim_tags, new_tags, pidx, pgroups>>
    /\ UNCHANGED notGroup

\* lines 138-145, without the viewer
WriteMesh ==
    /\ ppc = "write"
    /\ pcalls' = pcalls \o <<"optimize_mesh", "gmsh.write", "gmsh.finalize">>
    /\ ppc' = "done"
    /\ UNCHANGED <<layers, dim_tags, new_tags, pidx, pgroups>>
    /\ UNCHANGED notGroup

NextGroup ==
    \/ BuildSurfaces
    \/ Fragment
    \/ SetMeshing
    \/ ExcitationBoundaries
    \/ OuterBoundaries
    \/ RegisterGroup
    \/ GenerateMesh
    \/ WriteMesh

\* one run of the mesh producer on every configuration of layers
SpecGroup == InitGroup /\ [][NextGroup]_vars

-----------------------------------------------------------------------------
(* Properties of the registration of physical groups (checked under          *)
(* SpecGroup)                                                                *)

\* the registration loop has ended
Registered == ppc \in {"write", "done"}

\* the physical groups registered under a name
GroupsNamed(name) == {i \in 1..Len(pgroups) : pgroups[i].name = name}

\* the dimensions that occur in a set of entities
DimsOf(dts) == {dts[k][1] : k \in 1..Len(dts)}

\* the names of the entity sets: the configured layers, the boundaries of the
\* excitations of the metal layers, the four outer boundaries
EntitySetNames ==
    {layers[i].name : i \in 1..Len(layers)}
    \cup {ExcitationKey(layers[i].excitation) : i \in {j \in 1..Len(layers) : layers[j].metal}}
    \cup {OuterKeys[i] : i \in 1..Len(OuterKeys)}

\* every non-empty entity set has exactly one group, of the highest dimension
\* in the set and with the tags of the set, and an empty set has none
EverySetRegisteredOnce ==
    /\ Keys(new_tags) = EntitySetNames
    /\ \A i \in 1..Len(new_tags) :
          LET name == new_tags[i].name
              dts  == new_tags[i].dts
          IN  IF dts # <<>>
              THEN /\ Cardinality(GroupsNamed(name)) = 1
                   /\ \A g \in GroupsNamed(name) :
                         /\ pgroups[g].dim \in DimsOf(dts)
                         /\ \A d \in DimsOf(dts) : d <= pgroups[g].dim
                         /\ pgroups[g].tags = [k \in 1..Len(dts) |-> dts[k][2]]
              ELSE GroupsNamed(name) = {}
    /\ \A g \in 1..Len(pgroups) : pgroups[g].name \in Keys(new_tags)

\* the positions of a call in the calls so far
CallsOf(call) == {i \in 1..Len(pcalls) : pcalls[i] = call}

\* every registration so far came after fragment and synchronize and before
\* any mesh generation, and there is one call for every group
RegisteredAfterFragmentBeforeMesh ==
    /\ Cardinality(CallsOf("gmsh.model.addPhysicalGroup")) = Len(pgroups)
    /\ \A i \in CallsOf("gmsh.model.addPhysicalGroup") :
          /\ \E j \in CallsOf("gmsh.model.occ.fragment") : j < i
          /\ \E j \in CallsOf("gmsh.model.occ.synchronize") : j < i
          /\ \A j \in CallsOf("gmsh.model.mesh.generate") : i < j
    /\ Registered => CallsOf("gmsh.model.mesh.generate") # {}
    /\ ppc \in {"start", "fragment", "set_meshing", "excitations", "outer"} => pgroups = <<>>

\* C12: in produce_cross_section_mesh, after fragmentation and the collection
\* of the excitation and outer boundaries, every named entity set (each
\* configured layer, each excitation_<group>_boundary, the four outer
\* boundaries) that is non-empty is registered as exactly one named physical
\* group whose dimension is the highest dimension occurring in the set, every
\* empty set is skipped, and all registrations happen after the fragment and
\* synchronize step and before mesh generation.
C12_EntitySetsRegistered ==
    /\ Registered => EverySetRegisteredOnce
    /\ RegisteredAfterFragmentBeforeMesh

\* a run has ended that registered a layer's surfaces as a group of dimension
\* 2 and an excitation boundary as a group of dimension 1, and skipped an
\* empty layer and an empty outer boundary
C12_Witness ==
    /\ ppc = "done"
    /\ \E g \in 1..Len(pgroups) : pgroups[g].name = "signal" /\ pgroups[g].dim = 2
    /\ \E g \in 1..Len(pgroups) :
          pgroups[g].name = ExcitationKey(1) /\ pgroups[g].dim = 1
    /\ TagsGet(new_tags, "ground", <<<<2, 0>>>>) = <<>>
    /\ TagsGet(new_tags, "ymax_boundary", <<<<1, 0>>>>) = <<>>
    /\ GroupsNamed("ground") = {}
    /\ GroupsNamed("ymax_boundary") = {}

====
